---- MODULE Spec2Model ----
(***************************************************************************)
(* A model of streamfactory's job runner (services/jobQueueService.js),    *)
(* its pub/sub sink (services/socketService.js), the audio mix engine      *)
(* (services/aiService.js, generateAudio) and the video assembly engine    *)
(* (services/videoService.js, assembleVideo).                              *)
(*                                                                         *)
(* Five state machines share the module; each has its own specification:   *)
(*   Spec, SpecWorker, SpecRunner                                          *)
(*              the job runner: initialize, startWorkers, addJob, the      *)
(*              worker's processJob attempts, getJobStatus and the broker  *)
(*              connection;                                                *)
(*   SpecAudio  one generateAudio call and its encoder events;             *)
(*   SpecVideo  one assembleVideo call, its two encoder runs and its       *)
(*              cleanup;                                                   *)
(*   SpecEngines  one call of either engine;                               *)
(*   SpecCurve  one volume or pan curve and the filter made of it;         *)
(*   SpecQueued the started job runner with a subscribing client, under    *)
(*              weak fairness of the workers and of the client's messages; *)
(*   SpecPaths  the output and temp paths of two engine calls under way.   *)
(***************************************************************************)
EXTENDS Integers, Sequences, FiniteSets, TLC

VARIABLES
    \* ---- JobQueueService / SocketService ----
    svc,              \* "new" until initialize() has returned, then "ready"
    isRedisAvailable, \* this.isRedisAvailable
    connection,       \* this.connection: "none", "ready", "reconnecting", "ended"
    redisUp,          \* whether the broker is reachable (environment)
    queues,           \* keys of this.queues
    workers,          \* keys of this.workers
    io,               \* socketService.io is set
    jobs,             \* the jobs persisted in the broker, in order of creation
    calls,            \* the addJob calls made so far, with their outcome
    sink,             \* per job, what the pub/sub sink has been sent about it
    query,            \* the latest getJobStatus call, with its outcome
    client,           \* the browser's socket: the subscribe:job messages it
                      \* has sent, the rooms it has joined, and the jobs whose
                      \* job:completed or job:failed event it has received
    \* ---- AudioService.generateAudio, one call ----
    aPc,              \* "idle", "spawned", "encoding", "resolved", "rejected"
    aReq,             \* the request: stems, duration, whether a callback is given
    aLast,            \* lastProgress
    aReports,         \* encoder progress events handled so far
    aEvents,          \* what progressCallback received, in order
    aOutput,          \* a file exists at outputPath
    aError,           \* what the call was rejected with
    aMessage,         \* the message of the Error it was rejected with
    aQueried,         \* getAudioStems was called
    \* ---- VideoService.assembleVideo, one call ----
    vPc,              \* where the call is, "idle" to "resolved" / "rejected"
    vReq,             \* the request: loopType, audioDuration, callback given
    vPlan,            \* concatList, a segment being "forward" or "reverse"
    vLast,            \* lastProgress of the encoder run under way
    vReports,         \* encoder progress events handled in that run
    vEvents,          \* what progressCallback received, in order
    vReversed,        \* a file exists at reversedVideoPath
    vConcat,          \* a file exists at concatListPath
    vOutput,          \* a file exists at outputPath
    vUnlinkFailed,    \* the artifacts whose unlink was rejected
    vError,           \* what the call fails with, "none" when it succeeds
    vEncoders,        \* the encoder runs launched: "reverse", "merge"
    vSource,          \* videoDuration, as probed; 0 before
    vCap,             \* the duration handed to the merge; 0 before
    vStep,            \* what the progress handler of the encoder run under
                      \* way passed to its callback, in order
    vLog,             \* the steps of the call, in order: "reverse" (the
                      \* reversal is launched), "reversed", "plan" (the
                      \* concat list is complete), "write", "merge"
    \* ---- AudioService curves, one curve and its filter ----
    cPc,              \* "idle", "sampling", "done", "filtered"
    cReq,             \* the call: which curve, duration, base volume, spread
    cCurve,           \* curve, the samples pushed so far
    cFilter,          \* what buildPanFilter made of the curve's mean pan
    cWindows,         \* the terms of the expression buildVolumeFilter made
    \* ---- the output directories, shared by the engine calls under way ----
    pNow,             \* Date.now(), in milliseconds since the server started
    pJobs,            \* per engine call: how far it is, its kind, the
                      \* outputName it was given and the timestamp it took
    pFiles            \* the paths at which a file exists

audioVars == <<aPc, aReq, aLast, aReports, aEvents, aOutput, aError,
               aMessage, aQueried>>

videoVars == <<vPc, vReq, vPlan, vLast, vReports, vEvents, vReversed, vConcat,
               vOutput, vUnlinkFailed, vError, vEncoders, vSource, vCap,
               vStep, vLog>>

curveVars == <<cPc, cReq, cCurve, cFilter, cWindows>>

pathVars == <<pNow, pJobs, pFiles>>

jobVars == <<svc, isRedisAvailable, connection, redisUp, queues, workers, io,
             jobs, calls, sink, query, client>>

----------------------------------------------------------------------------
(* Bounds of the job runner model. *)

\* addJob calls per behaviour, while the broker comes and goes
MaxCalls == 2
\* addJob calls per behaviour, with the workers at work
MaxJobs == 1
\* updateProgress calls one processor invocation makes
MaxUpdates == 1
\* progress events one encoder run reports
MaxReports == 2
\* iterations of an unbounded loop that are modelled
MaxPushes == 3
\* milliseconds the clock is followed for
MaxClock == 3

(* Program constants. *)

\* addJob: attempts: 3
Attempts == 3

\* The queues initialize() creates.
CreatedQueues == {"audio", "video", "upload", "ai"}

\* The queue names the routes pass to addJob: 'audio' (audio routes),
\* 'video' (video routes), 'youtube' (POST /api/youtube/publish).
CallerQueueNames == {"audio", "video", "youtube"}

\* What a processor can end with: it resolves, or it throws / rejects with a
\* value. The thrown values are an Error object, a primitive that is not
\* nullish (a string), and a nullish value (null or undefined).
Thrown == {"Error", "String", "Nullish"}
Outcomes == {"resolve"} \cup Thrown

\* Percent values a processor passes to updateProgress.
Percents == {0, 50}

----------------------------------------------------------------------------
(* JavaScript helpers. *)

\* Reading a property of null or undefined throws a TypeError.
PropertyReadThrows(v) == v = "Nullish"

\* error.message: the message of an Error, undefined for a string.
MessageOf(v) == IF v = "Error" THEN "message" ELSE "undefined"

----------------------------------------------------------------------------
(* SocketService: each emitter returns without emitting when io is unset,  *)
(* and otherwise sends one event to the room job:<jobId>. The sink keeps,  *)
(* for the job that caused them, how many terminal events of each type     *)
(* (job:completed, job:failed) were sent, and whether a job:progress event *)
(* was sent before any terminal event (early) or after one (late).         *)

NoEvents == [early |-> FALSE, completed |-> 0, failed |-> 0, late |-> FALSE]

Sent(s, i) == IF i \in DOMAIN s THEN s[i] ELSE NoEvents

Terminals(t) == t.completed + t.failed

emitJobProgress(s, i, progress) ==
    IF ~io THEN s
    ELSE (i :> [Sent(s, i) EXCEPT
                  !.early = @ \/ Terminals(Sent(s, i)) = 0,
                  !.late = @ \/ Terminals(Sent(s, i)) > 0]) @@ s

emitJobCompleted(s, i) ==
    IF ~io THEN s
    ELSE (i :> [Sent(s, i) EXCEPT !.completed = @ + 1]) @@ s

\* error.message || error throws on a nullish error: nothing is emitted then
\* (the TypeError replaces the error processJob rethrows).
emitJobFailed(s, i, error) ==
    IF ~io \/ PropertyReadThrows(error) THEN s
    ELSE (i :> [Sent(s, i) EXCEPT !.failed = @ + 1]) @@ s

----------------------------------------------------------------------------
(* The browser (audio-studio.js) and the rooms of the socket server. An     *)
(* event emitted to the room job:<jobId> goes to the sockets that are in    *)
(* the room at that moment; nothing is kept for a socket that joins later.  *)

NoClient == [sent |-> {}, rooms |-> {}, got |-> {}]

\* this.io.to(`job:${jobId}`).emit(...): the client receives the event of
\* job i when its socket is in the room.
Delivered(c, i, emitted) ==
    IF emitted /\ i \in c.rooms THEN [c EXCEPT !.got = @ \cup {i}] ELSE c

----------------------------------------------------------------------------
(* JobQueueService.getJobStatus(queueName, jobId). A query record keeps    *)
(* what was asked and how the call ended:                                  *)
(*   flag     isRedisAvailable at the call                                 *)
(*   seen     how many addJob calls had been made before it                *)
(*   end      "returned", "raised" (the promise rejected) or "pending"     *)
(*   status, progress   the fields of the returned object                  *)

NoQuery ==
    [queue |-> "none", id |-> 0, flag |-> FALSE, seen |-> 0, end |-> "none",
     status |-> "none", progress |-> 0]

\* The queue names and job ids getJobStatus is asked about.
StatusKinds == {"audio", "video"}
JobIds == {1, 2}

\* { status: 'unknown', message: 'Queue not available' }
QueueNotAvailable(qr) == [qr EXCEPT !.end = "returned", !.status = "unknown"]

\* queue.getJob(jobId) and job.getState() answered over the jobs js: no job of
\* that id gives { status: 'not_found' }, a job gives its state and progress.
Snapshot(qr, js) ==
    IF \E i \in DOMAIN js : js[i].queue = qr.queue /\ js[i].id = qr.id
    THEN LET i == CHOOSE i \in DOMAIN js :
                     js[i].queue = qr.queue /\ js[i].id = qr.id
         IN  [qr EXCEPT !.end = "returned", !.status = js[i].state,
                        !.progress = js[i].progress]
    ELSE [qr EXCEPT !.end = "returned", !.status = "not_found"]

----------------------------------------------------------------------------
(* The job runner's state after construction: nothing is connected, no     *)
(* queue and no worker exists, the socket server is not attached. The      *)
(* broker is reachable or not.                                             *)

JobInit ==
    /\ svc = "new"
    /\ isRedisAvailable = FALSE
    /\ connection = "none"
    /\ redisUp \in BOOLEAN
    /\ queues = {}
    /\ workers = {}
    /\ io = FALSE
    /\ jobs = <<>>
    /\ calls = <<>>
    /\ sink = <<>>
    /\ query = NoQuery
    /\ client = NoClient

\* SocketService.initialize(server), at startup.
SocketInitialize ==
    /\ ~io
    /\ calls = <<>>
    /\ io' = TRUE
    /\ UNCHANGED <<svc, isRedisAvailable, connection, redisUp, queues, workers,
                   jobs, calls, sink>>
    /\ UNCHANGED query
    /\ UNCHANGED client
    /\ UNCHANGED <<audioVars, videoVars, curveVars, pathVars>>

\* JobQueueService.initialize(): useQueue is USE_JOB_QUEUE === 'true'. The ping
\* is answered when the broker is reachable; otherwise it is rejected once the
\* retry strategy gives up, and the catch block leaves the runner inline.
InitializeFlag(useQueue) == useQueue /\ redisUp

Initialize(useQueue) ==
    /\ svc = "new"
    /\ svc' = "ready"
    /\ isRedisAvailable' = InitializeFlag(useQueue)
    /\ connection' = IF InitializeFlag(useQueue) THEN "ready" ELSE "none"
    /\ queues' = IF InitializeFlag(useQueue) THEN CreatedQueues ELSE {}
    /\ UNCHANGED <<redisUp, workers, io, jobs, calls, sink>>
    /\ UNCHANGED query
    /\ UNCHANGED client
    /\ UNCHANGED <<audioVars, videoVars, curveVars, pathVars>>

\* JobQueueService.startWorkers(processors): skipped when the runner is inline;
\* one worker per processor given, among audio, video, upload and ai.
StartWorkers(processors) ==
    /\ svc = "ready"
    /\ calls = <<>>
    /\ isRedisAvailable
    /\ workers = {}
    /\ workers' = processors \cap CreatedQueues
    /\ UNCHANGED <<svc, isRedisAvailable, connection, redisUp, queues, io, jobs,
                   calls, sink>>
    /\ UNCHANGED query
    /\ UNCHANGED client
    /\ UNCHANGED <<audioVars, videoVars, curveVars, pathVars>>

----------------------------------------------------------------------------
(* The broker connection (ioredis, as configured by initialize): commands   *)
(* issued while the connection is down wait (maxRetriesPerRequest: null);   *)
(* the retry strategy returns null after 3 attempts, which ends the         *)
(* connection for good and rejects the waiting commands. Nothing in these   *)
(* steps touches isRedisAvailable.                                          *)

\* The id the broker gives the next job of queue q: a counter per queue.
NextJobId(js, q) == Cardinality({i \in DOMAIN js : js[i].queue = q}) + 1

NewJob(js, q) ==
    [queue |-> q, id |-> NextJobId(js, q), state |-> "waiting",
     attemptsMade |-> 0, progress |-> 0, started |-> 0, updates |-> 0]

RECURSIVE FlushPending(_, _, _)
\* The waiting queue.add commands of the pending calls, from call k on, run:
\* each persists its job and its call returns 'queued'. <<calls, jobs>>.
FlushPending(cs, js, k) ==
    IF k > Len(cs) THEN <<cs, js>>
    ELSE IF cs[k].end # "pending" THEN FlushPending(cs, js, k + 1)
    ELSE FlushPending(
            [cs EXCEPT ![k].end = "returned", ![k].status = "queued",
                       ![k].jobId = NextJobId(js, cs[k].queue),
                       ![k].persisted = 1],
            Append(js, NewJob(js, cs[k].queue)), k + 1)

RejectPending(cs) ==
    [k \in DOMAIN cs |->
        IF cs[k].end = "pending" THEN [cs[k] EXCEPT !.end = "raised"] ELSE cs[k]]

\* The waiting commands run in the order they were issued: a waiting getJob
\* sees the jobs of the queue.add commands issued before it.
VisibleJobs(qr, cs, js) == FlushPending(SubSeq(cs, 1, qr.seen), js, 1)[2]

BrokerDown ==
    /\ redisUp
    /\ redisUp' = FALSE
    /\ connection' = IF connection = "ready" THEN "reconnecting" ELSE connection
    /\ UNCHANGED <<svc, isRedisAvailable, queues, workers, io, jobs, calls, sink>>
    /\ UNCHANGED query
    /\ UNCHANGED client
    /\ UNCHANGED <<audioVars, videoVars, curveVars, pathVars>>

BrokerUp ==
    /\ ~redisUp
    /\ redisUp' = TRUE
    /\ UNCHANGED <<svc, isRedisAvailable, connection, queues, workers, io, jobs,
                   calls, sink>>
    /\ UNCHANGED query
    /\ UNCHANGED client
    /\ UNCHANGED <<audioVars, videoVars, curveVars, pathVars>>

Reconnect ==
    /\ connection = "reconnecting"
    /\ redisUp
    /\ connection' = "ready"
    /\ calls' = FlushPending(calls, jobs, 1)[1]
    /\ jobs' = FlushPending(calls, jobs, 1)[2]
    /\ query' = IF query.end = "pending"
                THEN Snapshot(query, VisibleJobs(query, calls, jobs))
                ELSE query
    /\ UNCHANGED <<svc, isRedisAvailable, redisUp, queues, workers, io, sink>>
    /\ UNCHANGED client
    /\ UNCHANGED <<audioVars, videoVars, curveVars, pathVars>>

\* retryStrategy: times > 3 returns null ("falling back to synchronous
\* processing" is logged; the flag is left as it is).
RetryExhausted ==
    /\ connection = "reconnecting"
    /\ ~redisUp
    /\ connection' = "ended"
    /\ calls' = RejectPending(calls)
    /\ query' = IF query.end = "pending"
                THEN [query EXCEPT !.end = "raised"] ELSE query
    /\ UNCHANGED <<svc, isRedisAvailable, redisUp, queues, workers, io, jobs, sink>>
    /\ UNCHANGED client
    /\ UNCHANGED <<audioVars, videoVars, curveVars, pathVars>>

----------------------------------------------------------------------------
(* JobQueueService.addJob(queueName, jobName, data, processor).            *)
(* A call record keeps what the call saw and how it ended:                 *)
(*   flag, up   isRedisAvailable and the broker's reachability at the call *)
(*   end        "returned", "raised" (the promise rejected) or "pending"   *)
(*   status, jobId, error   the fields of the returned object              *)
(*   invoked    how often the processor passed to addJob ran in the call   *)
(*   thrown     what that processor ended with                             *)
(*   persisted  how many jobs the call persisted                           *)
(*   updates    how many updateProgress calls that processor made          *)
(*   events     how many job:progress events the sink was sent for them    *)

NewCall(q) ==
    [queue |-> q, flag |-> isRedisAvailable, up |-> redisUp, end |-> "pending", status |-> "none", jobId |-> 0,
     error |-> "none", invoked |-> 0, thrown |-> "none", persisted |-> 0,
     updates |-> 0, events |-> 0]

\* The branch addJob takes: the queue branch needs the flag and a queue of
\* that name.
TakesQueueBranch(q) == isRedisAvailable /\ q \in queues

\* The queue branch: await this.queues[queueName].add(...), not guarded by any
\* try: the job is persisted and 'queued' returned; or the command waits for
\* the connection; or, the connection having ended, it is rejected and so is
\* addJob.
AddJobQueued(q) ==
    /\ TakesQueueBranch(q)
    /\ CASE connection = "ready" ->
              /\ jobs' = Append(jobs, NewJob(jobs, q))
              /\ calls' = Append(calls,
                    [NewCall(q) EXCEPT !.end = "returned", !.status = "queued",
                                       !.jobId = NextJobId(jobs, q),
                                       !.persisted = 1])
         [] connection = "reconnecting" ->
              /\ calls' = Append(calls, NewCall(q))
              /\ jobs' = jobs
         [] OTHER ->
              /\ calls' = Append(calls, [NewCall(q) EXCEPT !.end = "raised"])
              /\ jobs' = jobs

\* The catch block of the inline branch: error.message is read from the
\* thrown value; the read itself throws when the value is null or undefined,
\* and that TypeError leaves addJob.
InlineCatchRaises(v) == PropertyReadThrows(v)

\* The updateProgress the inline branch hands to the processor only logs:
\* the job:progress events n calls of it send to the sink.
InlineProgressEvents(n) == 0

\* What the inline branch makes of the call: the processor runs once, inside
\* the call, makes n updateProgress calls, and its outcome is returned as
\* 'completed', or as 'failed' with error.message.
InlineResultRetrying(q, outcome, n) ==
    IF outcome = "resolve"
    THEN [NewCall(q) EXCEPT !.end = "returned", !.status = "completed",
                            !.invoked = 1, !.thrown = outcome,
                            !.updates = n, !.events = InlineProgressEvents(n)]
    ELSE [NewCall(q) EXCEPT !.end = "returned", !.status = "failed",
                            !.error = MessageOf(outcome), !.invoked = 2,
                            !.thrown = outcome,
                            !.updates = n, !.events = InlineProgressEvents(n)]
InlineResult(q, outcome, n) ==
    IF outcome = "resolve"
    THEN [NewCall(q) EXCEPT !.end = "returned", !.status = "completed",
                            !.invoked = 1, !.thrown = outcome,
                            !.updates = n, !.events = InlineProgressEvents(n)]
    ELSE IF InlineCatchRaises(outcome)
    THEN [NewCall(q) EXCEPT !.end = "raised", !.invoked = 1,
                            !.thrown = outcome,
                            !.updates = n, !.events = InlineProgressEvents(n)]
    ELSE [NewCall(q) EXCEPT !.end = "returned", !.status = "failed",
                            !.error = MessageOf(outcome), !.invoked = 1,
                            !.thrown = outcome,
                            !.updates = n, !.events = InlineProgressEvents(n)]

AddJobInline(q, outcome, n) ==
    /\ ~TakesQueueBranch(q)
    /\ jobs' = jobs
    /\ calls' = Append(calls, InlineResult(q, outcome, n))

\* Requests are served once initialize() has returned. The processor passed
\* ends with outcome after n updateProgress calls, when it is run.
AddJob(q, outcome, n) ==
    /\ svc = "ready"
    /\ \/ AddJobQueued(q) /\ outcome = "resolve" /\ n = 0
       \/ AddJobInline(q, outcome, n)
    /\ UNCHANGED <<svc, isRedisAvailable, connection, redisUp, queues, workers,
                   io, sink>>
    /\ UNCHANGED query
    /\ UNCHANGED client
    /\ UNCHANGED <<audioVars, videoVars, curveVars, pathVars>>

\* getJobStatus: 'unknown' without the flag or the queue; otherwise getJob and
\* getState are awaited, not guarded by any try: they are answered, or wait
\* for the connection, or, the connection having ended, are rejected and so
\* is getJobStatus.
GetJobStatus(q, id) ==
    /\ svc = "ready"
    /\ LET qr == [NoQuery EXCEPT !.queue = q, !.id = id,
                                 !.flag = isRedisAvailable, !.seen = Len(calls)]
       IN  query' =
             IF ~isRedisAvailable \/ q \notin queues THEN QueueNotAvailable(qr)
             ELSE CASE connection = "ready" -> Snapshot(qr, jobs)
                    [] connection = "reconnecting" -> [qr EXCEPT !.end = "pending"]
                    [] OTHER -> [qr EXCEPT !.end = "raised"]
    /\ query' # query
    /\ UNCHANGED <<svc, isRedisAvailable, connection, redisUp, queues, workers,
                   io, jobs, calls, sink>>
    /\ UNCHANGED client
    /\ UNCHANGED <<audioVars, videoVars, curveVars, pathVars>>

----------------------------------------------------------------------------
(* The workers: new Worker(name, job => this.processJob(job, processor)),  *)
(* one per queue, one job at a time. A job is retried while the attempts   *)
(* made are fewer than the attempts option addJob sets.                    *)

ActiveIn(q) == {i \in DOMAIN jobs : jobs[i].queue = q /\ jobs[i].state = "active"}

\* processJob starts on a waiting job.
WorkerPick(i) ==
    /\ connection = "ready"
    /\ jobs[i].state = "waiting"
    /\ jobs[i].queue \in workers
    /\ ActiveIn(jobs[i].queue) = {}
    /\ jobs' = [jobs EXCEPT ![i].state = "active",
                            ![i].started = jobs[i].started + 1,
                            ![i].updates = 0]
    /\ UNCHANGED <<svc, isRedisAvailable, connection, redisUp, queues, workers,
                   io, calls, sink>>
    /\ UNCHANGED query
    /\ UNCHANGED client
    /\ UNCHANGED <<audioVars, videoVars, curveVars, pathVars>>

\* processJob's updateProgress(progress, message): job.updateProgress, then
\* socketService.emitJobProgress.
WorkerProgress(i, p) ==
    /\ connection = "ready"
    /\ jobs[i].state = "active"
    /\ jobs[i].updates < MaxUpdates
    /\ jobs' = [jobs EXCEPT ![i].progress = p,
                            ![i].updates = jobs[i].updates + 1]
    /\ sink' = emitJobProgress(sink, i, p)
    /\ UNCHANGED <<svc, isRedisAvailable, connection, redisUp, queues, workers,
                   io, calls>>
    /\ UNCHANGED query
    /\ UNCHANGED client
    /\ UNCHANGED <<audioVars, videoVars, curveVars, pathVars>>

\* The processor resolved: emitJobCompleted, the result is returned and the
\* job is completed.
WorkerSucceed(i) ==
    /\ connection = "ready"
    /\ jobs[i].state = "active"
    /\ jobs' = [jobs EXCEPT ![i].state = "completed"]
    /\ sink' = emitJobCompleted(sink, i)
    /\ client' = Delivered(client, i, io)
    /\ UNCHANGED <<svc, isRedisAvailable, connection, redisUp, queues, workers,
                   io, calls>>
    /\ UNCHANGED query
    /\ UNCHANGED <<audioVars, videoVars, curveVars, pathVars>>

\* Whether a job that has now failed made attempts is tried again.
RetriesLeftOffByOne(made) == made <= Attempts
RetriesLeft(made) == made < Attempts

\* The processor threw: the catch block emits job:failed and rethrows; the
\* attempt has failed, and the job is delayed for a retry or failed for good.
WorkerFail(i, v) ==
    /\ connection = "ready"
    /\ jobs[i].state = "active"
    /\ jobs' = [jobs EXCEPT
                  ![i].attemptsMade = jobs[i].attemptsMade + 1,
                  ![i].state = IF RetriesLeft(jobs[i].attemptsMade + 1)
                               THEN "delayed" ELSE "failed"]
    /\ sink' = emitJobFailed(sink, i, v)
    /\ client' = Delivered(client, i, io /\ ~PropertyReadThrows(v))
    /\ UNCHANGED <<svc, isRedisAvailable, connection, redisUp, queues, workers,
                   io, calls>>
    /\ UNCHANGED query
    /\ UNCHANGED <<audioVars, videoVars, curveVars, pathVars>>

\* backoff: exponential from 2000 ms: the delay has passed.
BackoffElapsed(i) ==
    /\ connection = "ready"
    /\ jobs[i].state = "delayed"
    /\ jobs' = [jobs EXCEPT ![i].state = "waiting"]
    /\ UNCHANGED <<svc, isRedisAvailable, connection, redisUp, queues, workers,
                   io, calls, sink>>
    /\ UNCHANGED query
    /\ UNCHANGED client
    /\ UNCHANGED <<audioVars, videoVars, curveVars, pathVars>>

\* The job the k-th addJob call returned the id of.
JobOf(k) ==
    CHOOSE i \in DOMAIN jobs :
        jobs[i].queue = calls[k].queue /\ jobs[i].id = calls[k].jobId

\* handleGenerate: the response says 'queued', and the client emits
\* subscribe:job with the jobId it holds.
ClientSubscribe(k) ==
    /\ io
    /\ calls[k].end = "returned"
    /\ calls[k].status = "queued"
    /\ JobOf(k) \notin client.sent \cup client.rooms
    /\ client' = [client EXCEPT !.sent = @ \cup {JobOf(k)}]
    /\ UNCHANGED <<svc, isRedisAvailable, connection, redisUp, queues, workers,
                   io, jobs, calls, sink>>
    /\ UNCHANGED query
    /\ UNCHANGED <<audioVars, videoVars, curveVars, pathVars>>

\* socket.on('subscribe:job'): socket.join(`job:${jobId}`).
SubscribeJob(i) ==
    /\ i \in client.sent
    /\ client' = [client EXCEPT !.sent = @ \ {i}, !.rooms = @ \cup {i}]
    /\ UNCHANGED <<svc, isRedisAvailable, connection, redisUp, queues, workers,
                   io, jobs, calls, sink>>
    /\ UNCHANGED query
    /\ UNCHANGED <<audioVars, videoVars, curveVars, pathVars>>

----------------------------------------------------------------------------
ProcessorSets == {{"audio"}, CreatedQueues}

\* What a processor run by a worker throws: a value whose message can be read,
\* or one whose read throws.
WorkerThrown == {"Error", "Nullish"}

Startup ==
    \/ SocketInitialize
    \/ \E useQueue \in BOOLEAN : Initialize(useQueue)
    \/ \E processors \in ProcessorSets : StartWorkers(processors)

\* A route calls addJob with a processor that ends in any way.
Request(q, outcome) == Len(calls) < MaxCalls /\ AddJob(q, outcome, 0)

\* A route calls addJob while the workers are at work.
WorkerRequest(q) == Len(calls) < MaxJobs /\ AddJob(q, "resolve", 0)

\* A route calls addJob with a processor that reports its progress n times.
ReportingRequest(q, n) == Len(calls) < MaxJobs /\ AddJob(q, "resolve", n)

\* Submission while the broker comes and goes.
Next ==
    \/ Startup
    \/ \E q \in CallerQueueNames, outcome \in Outcomes : Request(q, outcome)
    \/ BrokerDown
    \/ BrokerUp
    \/ Reconnect
    \/ RetryExhausted

\* The workers at work, the broker staying as it was at start.
WorkerNext ==
    \/ Startup
    \/ \E q \in CallerQueueNames : WorkerRequest(q)
    \/ \E i \in DOMAIN jobs : WorkerPick(i)
    \/ \E i \in DOMAIN jobs, p \in Percents : WorkerProgress(i, p)
    \/ \E i \in DOMAIN jobs : WorkerSucceed(i)
    \/ \E i \in DOMAIN jobs, v \in WorkerThrown : WorkerFail(i, v)
    \/ \E i \in DOMAIN jobs : BackoffElapsed(i)

\* The whole runner: submission, the workers, status queries, and the broker
\* coming and going.
RunnerNext ==
    \/ Startup
    \/ \E q \in CallerQueueNames, n \in 0..MaxUpdates : ReportingRequest(q, n)
    \/ \E i \in DOMAIN jobs : WorkerPick(i)
    \/ \E i \in DOMAIN jobs, p \in Percents : WorkerProgress(i, p)
    \/ \E i \in DOMAIN jobs : WorkerSucceed(i)
    \/ \E i \in DOMAIN jobs, v \in WorkerThrown : WorkerFail(i, v)
    \/ \E i \in DOMAIN jobs : BackoffElapsed(i)
    \/ \E q \in StatusKinds, id \in JobIds : GetJobStatus(q, id)
    \/ BrokerDown
    \/ BrokerUp
    \/ Reconnect
    \/ RetryExhausted

----------------------------------------------------------------------------
(* AudioService.generateAudio(config, progressCallback), one call.         *)
(* The encoder (fluent-ffmpeg) emits 'start' once it has spawned, then     *)
(* 'progress' events, then 'end' or 'error'; 'error' can also come first.  *)
(* A percent is kept in tenths: 55 is 5.5 %; Undefined is a progress event *)
(* without a percent.                                                      *)

Undefined == -1

\* The percents an encoder reports: none, 0, 5.5, 40, 90, 100 and 120 %.
EncoderPercents == {Undefined, 0, 55, 400, 900, 1000, 1200}

\* if (progress.percent): 0 and undefined are falsy.
Truthy(p) == p # Undefined /\ p # 0

\* Math.floor(progress.percent)
Floor(p) == p \div 10

\* The stem counts and durations a request carries.
\* SELECT * FROM audio_stems: the ids of the catalogue, and those of its rows
\* whose file_path names no file.
Catalogue == (1..11) \cup {99}
FileMissing == {99}

\* config.stems of a request, as the ids it references (s.stem_id || s.id):
\* none, one, the same one twice, two, an id the catalogue lacks, a stem
\* without its file, ten and eleven distinct ones.
StemLists == {<<>>, <<1>>, <<1, 1>>, <<1, 2>>, <<98>>, <<1, 98>>, <<99>>,
              [i \in 1..10 |-> i], [i \in 1..11 |-> i]}

\* The ids of the rows of WHERE id IN (?, ?, ...): a row per matching stem,
\* however many times the list names it.
GetAudioStems(stemIds) == {id \in Catalogue : \E k \in DOMAIN stemIds : stemIds[k] = id}

\* dbStems.length !== stemIds.length does not hold
StemsFound(stemIds) == Cardinality(GetAudioStems(stemIds)) = Len(stemIds)

\* fs.existsSync holds for the file of every row
FilesExist(stemIds) == GetAudioStems(stemIds) \cap FileMissing = {}
Durations == {30, 60, 36000, 36001}

\* Validation: 1..10 stems, 60..36000 seconds.
ValidMixAnyCount(n, d) == n >= 1 /\ d >= 60 /\ d <= 36000
ValidMix(n, d) == n >= 1 /\ n <= 10 /\ d >= 60 /\ d <= 36000

Event(percent, message) == [percent |-> percent, message |-> message]

\* if (progressCallback) progressCallback(percent, message)
Deliver(events, cb, percent, message) ==
    IF cb THEN Append(events, Event(percent, message)) ELSE events

\* err.message of the encoder's 'error' event: the process exited with a
\* nonzero code (with the last line it wrote), or could not be spawned.
EncoderDiagnostics == {"ffmpeg exited with code 1", "Cannot find ffmpeg"}

\* new Error(`Audio generation failed: ${err.message}`)
AudioFailureMessage(diagnostic) == <<"Audio generation failed: ", diagnostic>>

\* The messages of the errors thrown before the encoder is built.
ValidationMessage(n, d) ==
    IF n = 0 THEN <<"At least one audio stem is required">>
    ELSE IF n > 10 THEN <<"Maximum 10 audio stems allowed">>
    ELSE <<"Duration must be between 1 minute and 10 hours">>

\* if (fs.existsSync(outputPath)) fs.unlinkSync(outputPath): whether a file
\* exists at outputPath afterwards.
AfterCleanupKept(exists) == exists
AfterCleanup(exists) == FALSE

AudioInit ==
    /\ aPc = "idle"
    /\ aReq = [stems |-> 0, ids |-> <<>>, duration |-> 0, cb |-> FALSE]
    /\ aLast = 0
    /\ aReports = 0
    /\ aEvents = <<>>
    /\ aOutput = FALSE
    /\ aError = "none"
    /\ aMessage = <<>>
    /\ aQueried = FALSE

\* (One engine call is followed at a time: the other engine is idle.)
\* generateAudio up to .save(outputPath): validation, stem resolution (the
\* stems are found with their files, or not), then the encoder is launched.
GenerateAudio(stems, d, cb) ==
    /\ aPc = "idle"
    /\ vPc = "idle"
    /\ aReq' = [stems |-> Len(stems), ids |-> stems, duration |-> d, cb |-> cb]
    /\ aPc' = IF ValidMix(Len(stems), d) /\ StemsFound(stems) /\ FilesExist(stems)
              THEN "spawned" ELSE "rejected"
    /\ aError' = IF ~ValidMix(Len(stems), d) THEN "validation"
                 ELSE IF ~StemsFound(stems) THEN "notfound"
                 ELSE IF ~FilesExist(stems) THEN "nofile" ELSE "none"
    /\ aMessage' = IF ~ValidMix(Len(stems), d)
                   THEN ValidationMessage(Len(stems), d)
                   ELSE IF ~StemsFound(stems)
                   THEN <<"Some audio stems not found in database">>
                   ELSE IF ~FilesExist(stems)
                   THEN <<"Audio file not found: ", "file_path">>
                   ELSE <<>>
    /\ aQueried' = ValidMix(Len(stems), d)
    /\ UNCHANGED <<aLast, aReports, aEvents, aOutput>>
    /\ UNCHANGED <<jobVars, videoVars, curveVars, pathVars>>

\* .on('start')
AudioStart ==
    /\ aPc = "spawned"
    /\ aPc' = "encoding"
    /\ aEvents' = Deliver(aEvents, aReq.cb, 0, "started")
    /\ UNCHANGED <<aReq, aLast, aReports, aOutput, aError, aMessage, aQueried>>
    /\ UNCHANGED <<jobVars, videoVars, curveVars, pathVars>>

\* The progress handlers of generateAudio and mergeVideoWithAudio pass a
\* report on when its floor is at least 5 above the last one passed on.
PassesUnthrottled(p, last) == Truthy(p)
PassesThrottle(p, last) == Truthy(p) /\ Floor(p) >= last + 5

\* .on('progress'); the encoder has begun to write its output.
AudioProgress(p) ==
    /\ aPc = "encoding"
    /\ aReports < MaxReports
    /\ aReports' = aReports + 1
    /\ aOutput' = TRUE
    /\ aLast' = IF PassesThrottle(p, aLast) THEN Floor(p) ELSE aLast
    /\ aEvents' = IF PassesThrottle(p, aLast)
                  THEN Deliver(aEvents, aReq.cb, Floor(p), "processing")
                  ELSE aEvents
    /\ UNCHANGED <<aPc, aReq, aError, aMessage, aQueried>>
    /\ UNCHANGED <<jobVars, videoVars, curveVars, pathVars>>

\* .on('end'): the 100 % event, then resolve.
AudioEnd ==
    /\ aPc = "encoding"
    /\ aPc' = "resolved"
    /\ aOutput' = TRUE
    /\ aEvents' = Deliver(aEvents, aReq.cb, 100, "completed")
    /\ UNCHANGED <<aReq, aLast, aReports, aError, aMessage, aQueried>>
    /\ UNCHANGED <<jobVars, videoVars, curveVars, pathVars>>

\* .on('error'): progressCallback(0, 'Error: ...'), the failed output is
\* deleted, and the call is rejected with 'Audio generation failed: ...'.
AudioError(diagnostic) ==
    /\ aPc \in {"spawned", "encoding"}
    /\ aPc' = "rejected"
    /\ aError' = "encoder"
    /\ aMessage' = AudioFailureMessage(diagnostic)
    /\ aOutput' = AfterCleanup(aOutput)
    /\ aEvents' = Deliver(aEvents, aReq.cb, 0, "error")
    /\ UNCHANGED <<aReq, aLast, aReports, aQueried>>
    /\ UNCHANGED <<jobVars, videoVars, curveVars, pathVars>>

AudioNext ==
    \/ \E stems \in StemLists, d \in Durations, cb \in BOOLEAN :
          GenerateAudio(stems, d, cb)
    \/ AudioStart
    \/ \E p \in EncoderPercents : AudioProgress(p)
    \/ AudioEnd
    \/ \E diagnostic \in EncoderDiagnostics : AudioError(diagnostic)

----------------------------------------------------------------------------
(* VideoService.assembleVideo(config, progressCallback), one call.         *)

LoopTypes == {"ping-pong", "standard", "other"}

\* audioDuration of a request, in seconds.
AudioDurations == {0, 1, 25, 40, 95}

\* What the probe returns for the source video, in seconds.
SourceDurations == {0, 4, 10}

\* Math.ceil(a / b) for a >= 0, b > 0
FloorDiv(a, b) == a \div b
CeilDiv(a, b) == (a + b - 1) \div b

RECURSIVE Repeat(_, _)
\* n times the segments of unit, one after the other
Repeat(unit, n) == IF n <= 0 THEN <<>> ELSE unit \o Repeat(unit, n - 1)

\* audioDuration / videoDuration is Infinity when the probe returned 0
\* (audioDuration >= 1 past the validation), and so is its Math.ceil.
Infinity == -2

\* loopsNeeded of either branch
LoopsNeeded(audioDuration, unitDuration) ==
    IF unitDuration = 0 THEN Infinity ELSE CeilDiv(audioDuration, unitDuration)

\* What one iteration of the loop pushes.
PlanUnit(loopType) ==
    IF loopType = "ping-pong" THEN <<"forward", "reverse">> ELSE <<"forward">>

\* The duration one iteration covers.
UnitDuration(loopType, videoDuration) ==
    IF loopType = "ping-pong" THEN videoDuration * 2 ELSE videoDuration

\* The concat list: A, A_reversed, ... for ping-pong; A, A, ... for standard.
ConcatList(loopType, audioDuration, videoDuration) ==
    IF loopType = "ping-pong"
    THEN Repeat(<<"forward", "reverse">>,
                CeilDiv(audioDuration, videoDuration * 2))
    ELSE Repeat(<<"forward">>, CeilDiv(audioDuration, videoDuration))

\* Math.floor(progress * 0.7) in double arithmetic, for 0 <= progress < 400:
\* the product falls just short of the integer at 90, 170, 180, 330, ...
FloorTimes07(x) ==
    IF x \in {90, 170, 180, 330, 340, 350, 360}
    THEN (7 * x) \div 10 - 1 ELSE (7 * x) \div 10

\* The callback assembleVideo hands to createReversedVideo.
MapReverse(progress) == 5 + progress \div 2

\* The callback assembleVideo hands to mergeVideoWithAudio: 0-100 to 30-100.
MapMerge(progress) == 30 + FloorTimes07(progress)

VideoInit ==
    /\ vPc = "idle"
    /\ vReq = [videoExists |-> FALSE, audioExists |-> FALSE,
               loopType |-> "ping-pong", audioDuration |-> 0, cb |-> FALSE]
    /\ vPlan = <<>>
    /\ vLast = 0
    /\ vReports = 0
    /\ vEvents = <<>>
    /\ vReversed = FALSE
    /\ vConcat = FALSE
    /\ vOutput = FALSE
    /\ vUnlinkFailed = {}
    /\ vError = "none"
    /\ vEncoders = {}
    /\ vSource = 0
    /\ vCap = 0
    /\ vStep = <<>>
    /\ vLog = <<>>

\* The request is valid: both files exist and audioDuration is at least 1.
ValidAssemblyFilesOnly(videoExists, audioExists, audioDuration) ==
    videoExists /\ audioExists
ValidAssembly(videoExists, audioExists, audioDuration) ==
    videoExists /\ audioExists /\ audioDuration >= 1

\* assembleVideo up to the probe: the validation throws before the try block.
AssembleVideo(videoExists, audioExists, audioDuration, loopType, cb) ==
    /\ vPc = "idle"
    /\ aPc = "idle"
    /\ vReq' = [videoExists |-> videoExists, audioExists |-> audioExists,
                loopType |-> loopType, audioDuration |-> audioDuration,
                cb |-> cb]
    /\ IF ValidAssembly(videoExists, audioExists, audioDuration)
       THEN /\ vPc' = "probe"
            /\ vEvents' = Deliver(vEvents, cb, 0, "analyzing")
            /\ vError' = vError
       ELSE /\ vPc' = "rejected"
            /\ vEvents' = vEvents
            /\ vError' = "validation"
    /\ UNCHANGED <<vPlan, vLast, vReports, vReversed, vConcat, vOutput,
                   vUnlinkFailed>>
    /\ UNCHANGED <<vEncoders, vSource, vCap, vStep, vLog>>
    /\ UNCHANGED <<jobVars, audioVars, curveVars, pathVars>>

\* getVideoDuration is rejected: catch, then finally.
ProbeFails ==
    /\ vPc = "probe"
    /\ vPc' = "cleanup"
    /\ vError' = "probe"
    /\ UNCHANGED <<vReq, vPlan, vLast, vReports, vEvents, vReversed, vConcat,
                   vOutput, vUnlinkFailed>>
    /\ UNCHANGED <<vEncoders, vSource, vCap, vStep, vLog>>
    /\ UNCHANGED <<jobVars, audioVars, curveVars, pathVars>>

\* if (loopType === 'ping-pong'): the branch that creates the reversed copy.
LaunchesReversalAlways(loopType) == loopType \in {"ping-pong", "standard"}
LaunchesReversal(loopType) == loopType = "ping-pong"

\* getVideoDuration resolves. ping-pong: the 5 % event, and the reversal is
\* launched; standard: the concat list is built; any other loop type throws.
\* for (i = 0; i < loopsNeeded; i++) with loopsNeeded = Infinity has no exit.
Probe(videoDuration) ==
    /\ vPc = "probe"
    /\ IF LaunchesReversal(vReq.loopType)
       THEN /\ vPc' = "reverse-spawned"
            /\ vEvents' = Deliver(vEvents, vReq.cb, 5, "creating reversed")
            /\ vPlan' = vPlan
            /\ vError' = vError
            /\ vLog' = Append(vLog, "reverse")
            /\ vEncoders' = vEncoders \cup {"reverse"}
       ELSE IF vReq.loopType = "standard"
       THEN /\ IF LoopsNeeded(vReq.audioDuration, videoDuration) = Infinity
               THEN /\ vPc' = "pushing"
                    /\ vPlan' = vPlan
                    /\ vLog' = vLog
               ELSE /\ vPc' = "write"
                    /\ vPlan' = ConcatList("standard", vReq.audioDuration,
                                           videoDuration)
                    /\ vLog' = Append(vLog, "plan")
            /\ vEvents' = vEvents
            /\ vError' = vError
            /\ vEncoders' = vEncoders
       ELSE /\ vPc' = "cleanup"
            /\ vEvents' = vEvents
            /\ vPlan' = vPlan
            /\ vError' = "looptype"
            /\ vLog' = vLog
            /\ vEncoders' = vEncoders
    /\ vSource' = videoDuration
    /\ vStep' = <<>>
    /\ vLast' = 0
    /\ vReports' = 0
    /\ UNCHANGED <<vReq, vReversed, vConcat, vOutput, vUnlinkFailed, vCap>>
    /\ UNCHANGED <<jobVars, audioVars, curveVars, pathVars>>

\* One more iteration of a loop whose bound is Infinity: it ends only when
\* the process runs out of memory.
PlanPush ==
    /\ vPc = "pushing"
    /\ Len(vPlan) < MaxPushes
    /\ vPlan' = vPlan \o PlanUnit(vReq.loopType)
    /\ UNCHANGED <<vPc, vReq, vLast, vReports, vEvents, vReversed, vConcat,
                   vOutput, vUnlinkFailed, vError>>
    /\ UNCHANGED <<vEncoders, vSource, vCap, vStep, vLog>>
    /\ UNCHANGED <<jobVars, audioVars, curveVars, pathVars>>

\* createReversedVideo .on('start')
ReverseStart ==
    /\ vPc = "reverse-spawned"
    /\ vPc' = "reversing"
    /\ vEvents' = Deliver(vEvents, vReq.cb, MapReverse(0), "reverse started")
    /\ UNCHANGED <<vReq, vPlan, vLast, vReports, vReversed, vConcat, vOutput,
                   vUnlinkFailed, vError>>
    /\ UNCHANGED <<vEncoders, vSource, vCap, vStep, vLog>>
    /\ UNCHANGED <<jobVars, audioVars, curveVars, pathVars>>

\* The progress handler of createReversedVideo compares the report itself:
\* progress.percent > lastProgress + 5.
PassesReverseThrottle(p, last) == Truthy(p) /\ p > (last + 5) * 10

\* createReversedVideo .on('progress'): Math.floor(lastProgress / 4) is passed on.
ReverseProgress(p) ==
    /\ vPc = "reversing"
    /\ vReports < MaxReports
    /\ vReports' = vReports + 1
    /\ vReversed' = TRUE
    /\ vLast' = IF PassesReverseThrottle(p, vLast) THEN Floor(p) ELSE vLast
    /\ vEvents' = IF PassesReverseThrottle(p, vLast)
                  THEN Deliver(vEvents, vReq.cb, MapReverse(Floor(p) \div 4),
                               "reversing")
                  ELSE vEvents
    /\ vStep' = IF PassesReverseThrottle(p, vLast)
                THEN Append(vStep, Floor(p) \div 4) ELSE vStep
    /\ UNCHANGED <<vPc, vReq, vPlan, vConcat, vOutput, vUnlinkFailed, vError>>
    /\ UNCHANGED <<vEncoders, vSource, vCap, vLog>>
    /\ UNCHANGED <<jobVars, audioVars, curveVars, pathVars>>

\* createReversedVideo .on('end'): the 25 event; the concat list is built.
ReverseEnd ==
    /\ vPc = "reversing"
    /\ vReversed' = TRUE
    /\ vEvents' = Deliver(vEvents, vReq.cb, MapReverse(25), "reversed")
    /\ IF LoopsNeeded(vReq.audioDuration,
                      UnitDuration(vReq.loopType, vSource)) = Infinity
       THEN /\ vPc' = "pushing"
            /\ vPlan' = vPlan
            /\ vLog' = Append(vLog, "reversed")
       ELSE /\ vPc' = "write"
            /\ vPlan' = ConcatList(vReq.loopType, vReq.audioDuration, vSource)
            /\ vLog' = vLog \o <<"reversed", "plan">>
    /\ UNCHANGED <<vReq, vLast, vReports, vConcat, vOutput,
                   vUnlinkFailed, vError>>
    /\ UNCHANGED <<vEncoders, vSource, vCap, vStep>>
    /\ UNCHANGED <<jobVars, audioVars, curveVars, pathVars>>

\* createReversedVideo .on('error'): what the encoder wrote so far stays.
ReverseError ==
    /\ vPc \in {"reverse-spawned", "reversing"}
    /\ vPc' = "cleanup"
    /\ vError' = "reverse"
    /\ UNCHANGED <<vReq, vPlan, vLast, vReports, vEvents, vReversed, vConcat,
                   vOutput, vUnlinkFailed>>
    /\ UNCHANGED <<vEncoders, vSource, vCap, vStep, vLog>>
    /\ UNCHANGED <<jobVars, audioVars, curveVars, pathVars>>

\* The duration assembleVideo passes to mergeVideoWithAudio, which caps the
\* output with .duration(duration).
MergeDurationUncapped(audioDuration) == 0
MergeDuration(audioDuration) == audioDuration

\* fs.writeFile(concatListPath, ...): written, then the 30 % event and the
\* merge is launched; or rejected, a partial file left behind or not.
WriteConcat(ok, partial) ==
    /\ vPc = "write"
    /\ IF ok
       THEN /\ partial
            /\ vPc' = "merge-spawned"
            /\ vConcat' = TRUE
            /\ vEvents' = Deliver(vEvents, vReq.cb, 30, "merging")
            /\ vError' = vError
       ELSE /\ vPc' = "cleanup"
            /\ vConcat' = partial
            /\ vEvents' = vEvents
            /\ vError' = "write"
    /\ vEncoders' = IF ok THEN vEncoders \cup {"merge"} ELSE vEncoders
    /\ vLog' = IF ok THEN vLog \o <<"write", "merge">> ELSE vLog
    /\ vCap' = IF ok THEN MergeDuration(vReq.audioDuration) ELSE vCap
    /\ vStep' = <<>>
    /\ vLast' = 0
    /\ vReports' = 0
    /\ UNCHANGED <<vReq, vPlan, vReversed, vOutput, vUnlinkFailed, vSource>>
    /\ UNCHANGED <<jobVars, audioVars, curveVars, pathVars>>

\* mergeVideoWithAudio .on('start')
MergeStart ==
    /\ vPc = "merge-spawned"
    /\ vPc' = "merging"
    /\ vEvents' = Deliver(vEvents, vReq.cb, MapMerge(0), "merge started")
    /\ UNCHANGED <<vReq, vPlan, vLast, vReports, vReversed, vConcat, vOutput,
                   vUnlinkFailed, vError>>
    /\ UNCHANGED <<vEncoders, vSource, vCap, vStep, vLog>>
    /\ UNCHANGED <<jobVars, audioVars, curveVars, pathVars>>

\* mergeVideoWithAudio .on('progress')
MergeProgress(p) ==
    /\ vPc = "merging"
    /\ vReports < MaxReports
    /\ vReports' = vReports + 1
    /\ vOutput' = TRUE
    /\ vLast' = IF PassesThrottle(p, vLast) THEN Floor(p) ELSE vLast
    /\ vEvents' = IF PassesThrottle(p, vLast)
                  THEN Deliver(vEvents, vReq.cb, MapMerge(Floor(p)), "merging pct")
                  ELSE vEvents
    /\ vStep' = IF PassesThrottle(p, vLast) THEN Append(vStep, Floor(p)) ELSE vStep
    /\ UNCHANGED <<vPc, vReq, vPlan, vReversed, vConcat, vUnlinkFailed, vError>>
    /\ UNCHANGED <<vEncoders, vSource, vCap, vLog>>
    /\ UNCHANGED <<jobVars, audioVars, curveVars, pathVars>>

\* mergeVideoWithAudio .on('end'): progressCallback(100, 'Merge completed')
\* and resolve; assembleVideo goes on with progressCallback(100, 'Video
\* assembly completed') and asks for the output's info.
MergeEnd ==
    /\ vPc = "merging"
    /\ vPc' = "info"
    /\ vOutput' = TRUE
    /\ vEvents' = Deliver(Deliver(vEvents, vReq.cb, MapMerge(100), "merge completed"),
                          vReq.cb, 100, "assembly completed")
    /\ UNCHANGED <<vReq, vPlan, vLast, vReports, vReversed, vConcat,
                   vUnlinkFailed, vError>>
    /\ UNCHANGED <<vEncoders, vSource, vCap, vStep, vLog>>
    /\ UNCHANGED <<jobVars, audioVars, curveVars, pathVars>>

\* mergeVideoWithAudio .on('error'): reject(err); nothing is deleted.
MergeError ==
    /\ vPc \in {"merge-spawned", "merging"}
    /\ vPc' = "cleanup"
    /\ vError' = "merge"
    /\ UNCHANGED <<vReq, vPlan, vLast, vReports, vEvents, vReversed, vConcat,
                   vOutput, vUnlinkFailed>>
    /\ UNCHANGED <<vEncoders, vSource, vCap, vStep, vLog>>
    /\ UNCHANGED <<jobVars, audioVars, curveVars, pathVars>>

\* getVideoInfo(outputPath) resolves, or is rejected.
VideoInfo(ok) ==
    /\ vPc = "info"
    /\ vPc' = "cleanup"
    /\ vError' = IF ok THEN vError ELSE "info"
    /\ UNCHANGED <<vReq, vPlan, vLast, vReports, vEvents, vReversed, vConcat,
                   vOutput, vUnlinkFailed>>
    /\ UNCHANGED <<vEncoders, vSource, vCap, vStep, vLog>>
    /\ UNCHANGED <<jobVars, audioVars, curveVars, pathVars>>

\* The finally block deletes the concat list only when the unlink of the
\* reversed clip, if it was tried, did not throw: the two deletes share one
\* try, whose catch only logs.
ConcatUnlinkReached(failReversed) == ~(vReversed /\ failReversed)

\* finally: each artifact that exists is unlinked; an unlink can be rejected.
Cleanup(failReversed, failConcat) ==
    /\ vPc = "cleanup"
    /\ vPc' = IF vError = "none" THEN "resolved" ELSE "rejected"
    /\ vReversed' = (vReversed /\ failReversed)
    /\ vConcat' = (vConcat /\ (~ConcatUnlinkReached(failReversed) \/ failConcat))
    /\ vUnlinkFailed' =
          {x \in {"reversed"} : vReversed /\ failReversed}
          \cup {x \in {"concat"} :
                  vConcat /\ ConcatUnlinkReached(failReversed) /\ failConcat}
    /\ UNCHANGED <<vReq, vPlan, vLast, vReports, vEvents, vOutput, vError>>
    /\ UNCHANGED <<vEncoders, vSource, vCap, vStep, vLog>>
    /\ UNCHANGED <<jobVars, audioVars, curveVars, pathVars>>

VideoNext ==
    \/ \E videoExists \in BOOLEAN, audioExists \in BOOLEAN,
          audioDuration \in AudioDurations, loopType \in LoopTypes,
          cb \in BOOLEAN :
          AssembleVideo(videoExists, audioExists, audioDuration, loopType, cb)
    \/ ProbeFails
    \/ \E videoDuration \in SourceDurations : Probe(videoDuration)
    \/ PlanPush
    \/ ReverseStart
    \/ \E p \in EncoderPercents : ReverseProgress(p)
    \/ ReverseEnd
    \/ ReverseError
    \/ \E ok \in BOOLEAN, partial \in BOOLEAN : WriteConcat(ok, partial)
    \/ MergeStart
    \/ \E p \in EncoderPercents : MergeProgress(p)
    \/ MergeEnd
    \/ MergeError
    \/ \E ok \in BOOLEAN : VideoInfo(ok)
    \/ \E failReversed \in BOOLEAN, failConcat \in BOOLEAN :
          Cleanup(failReversed, failConcat)

----------------------------------------------------------------------------
(* AudioService.generateVolumeCurve, generatePanCurve and buildPanFilter.  *)
(* One curve is generated sample by sample, each sample drawing one value  *)
(* from Math.random(); generateAudio then hands the mean of a pan curve to *)
(* buildPanFilter. Volumes, pans and gains are kept in millionths,         *)
(* parameters and random values in thousandths.                            *)

Max(a, b) == IF a >= b THEN a ELSE b
Min(a, b) == IF a <= b THEN a ELSE b

\* Durations of accepted requests: a minute, a minute and a half, 11 minutes.
CurveDurations == {60, 90, 660}

\* Base volumes (a stem's volume) and volatilities, in [0, 1].
BaseVolumes == {0, 500, 1000}
Volatilities == {0, 1000}

\* config.spatialDrift: 0, the default 0.5, 1, and 4. generateAudio's
\* validation looks at the stems and the duration only, and the routes pass
\* config on as it was posted.
SpatialDrifts == {0, 500, 1000, 4000}

\* Math.random(): a value in [0, 1)
Randoms == {0, 999}

\* Math.max(10, Math.floor(duration / 60))
Points(duration) == Max(10, duration \div 60)

\* (i / points) * duration, a whole number for the durations above
SampleTime(i, duration) == (i * duration) \div Points(duration)

\* Math.max(0.1, Math.min(1.0, baseVolume + (Math.random() - 0.5) * volatility))
VolumeSampleNoFloor(baseVolume, volatility, r) ==
    Min(1000000, baseVolume * 1000 + (r - 500) * volatility)
VolumeSample(baseVolume, volatility, r) ==
    Max(100000, Min(1000000, baseVolume * 1000 + (r - 500) * volatility))

\* (Math.random() - 0.5) * 2 * spatialDrift
PanSample(spatialDrift, r) == (r - 500) * 2 * spatialDrift

RECURSIVE SumOf(_)
\* panCurve.reduce((sum, p) => sum + p.pan, 0)
SumOf(curve) ==
    IF curve = <<>> THEN 0 ELSE curve[1].value + SumOf(Tail(curve))

\* buildPanFilter(avgPan), avgPan being sum / n: leftGain = 1 - Math.max(0,
\* panValue), rightGain = 1 + Math.min(0, panValue). The record keeps the three
\* as numerators over n (in millionths).
PanFilter(sum, n) ==
    [n |-> n, pan |-> sum,
     leftGain |-> n * 1000000 - Max(0, sum),
     rightGain |-> n * 1000000 + Min(0, sum)]

NoFilter == [n |-> 0, pan |-> 0, leftGain |-> 0, rightGain |-> 0]

CurveInit ==
    /\ cPc = "idle"
    /\ cReq = [kind |-> "none", duration |-> 0, base |-> 0, spread |-> 0]
    /\ cCurve = <<>>
    /\ cFilter = NoFilter
    /\ cWindows = <<>>

\* generateVolumeCurve(duration, stem.volume, volatility) is called.
GenerateVolumeCurve(duration, baseVolume, volatility) ==
    /\ cPc = "idle"
    /\ cPc' = "sampling"
    /\ cReq' = [kind |-> "volume", duration |-> duration, base |-> baseVolume,
                spread |-> volatility]
    /\ UNCHANGED <<cCurve, cFilter, cWindows>>
    /\ UNCHANGED <<jobVars, audioVars, videoVars, pathVars>>

\* generatePanCurve(duration, spatialDrift) is called.
GeneratePanCurve(duration, spatialDrift) ==
    /\ cPc = "idle"
    /\ cPc' = "sampling"
    /\ cReq' = [kind |-> "pan", duration |-> duration, base |-> 0,
                spread |-> spatialDrift]
    /\ UNCHANGED <<cCurve, cFilter, cWindows>>
    /\ UNCHANGED <<jobVars, audioVars, videoVars, pathVars>>

\* One turn of the loop for (i = 0; i <= points; i++), i being the number of
\* samples pushed so far; the curve is returned after the last.
CurveSample(r) ==
    /\ cPc = "sampling"
    /\ LET i == Len(cCurve)
           value == IF cReq.kind = "volume"
                    THEN VolumeSample(cReq.base, cReq.spread, r)
                    ELSE PanSample(cReq.spread, r)
       IN  /\ cCurve' = Append(cCurve, [time |-> SampleTime(i, cReq.duration),
                                        value |-> value])
           /\ cPc' = IF i = Points(cReq.duration) THEN "done" ELSE "sampling"
    /\ UNCHANGED <<cReq, cFilter, cWindows>>
    /\ UNCHANGED <<jobVars, audioVars, videoVars, pathVars>>

\* generateAudio: avgPan, then this.buildPanFilter(avgPan).
BuildPanFilter ==
    /\ cPc = "done"
    /\ cReq.kind = "pan"
    /\ cPc' = "filtered"
    /\ cFilter' = PanFilter(SumOf(cCurve), Len(cCurve))
    /\ UNCHANGED <<cReq, cCurve, cWindows>>
    /\ UNCHANGED <<jobVars, audioVars, videoVars, pathVars>>

\* curve.map(point => between(t, point.time, point.time + 1) * point.volume):
\* one term per point of the curve, joined by '+'.
VolumeFilter(curve) ==
    [k \in DOMAIN curve |-> [from |-> curve[k].time, to |-> curve[k].time + 1,
                             volume |-> curve[k].value]]

\* between(t, min, max) of the encoder's expressions is 1 when
\* min <= t <= max, both ends included.
Between(t, min, max) == min <= t /\ t <= max

\* generateAudio: this.buildVolumeFilter(volumeCurves[index]).
BuildVolumeFilter ==
    /\ cPc = "done"
    /\ cReq.kind = "volume"
    /\ cPc' = "filtered"
    /\ cWindows' = VolumeFilter(cCurve)
    /\ UNCHANGED <<cReq, cCurve, cFilter>>
    /\ UNCHANGED <<jobVars, audioVars, videoVars, pathVars>>

CurveNext ==
    \/ \E duration \in CurveDurations, baseVolume \in BaseVolumes,
          volatility \in Volatilities :
          GenerateVolumeCurve(duration, baseVolume, volatility)
    \/ \E duration \in CurveDurations, spatialDrift \in SpatialDrifts :
          GeneratePanCurve(duration, spatialDrift)
    \/ \E r \in Randoms : CurveSample(r)
    \/ BuildPanFilter
    \/ BuildVolumeFilter

----------------------------------------------------------------------------
(* The files of engine calls that run at the same time. generateAudio and  *)
(* assembleVideo each take timestamp = Date.now() once and derive their    *)
(* paths from it and from config.outputName.                               *)

\* The engine calls followed, and what they are.
Slots == {1, 2}
Kinds == {"audio", "video"}

\* config.outputName: null, or a name the caller supplies.
OutputNames == {"null", "custom_mix"}

\* A path: the directory, the file's stem, and the timestamp in its name (0
\* when the name holds none).
Path(dir, stem, stamp) == [dir |-> dir, stem |-> stem, stamp |-> stamp]

\* path.join(outputDir, outputName || `audio_${timestamp}.mp3`), and
\* `video_${timestamp}.mp4` in the video output directory.
OutputPath(kind, outputName, timestamp) ==
    IF outputName # "null" THEN Path(kind, outputName, 0)
    ELSE Path(kind, kind, timestamp)

\* path.join(this.tempDir, `reversed_${timestamp}.mp4`)
ReversedVideoPath(timestamp) == Path("temp", "reversed", timestamp)

\* path.join(this.tempDir, `concat_${timestamp}.txt`)
ConcatListPath(timestamp) == Path("temp", "concat", timestamp)

\* The intermediate artifacts of a call: those of a video assembly.
TempPaths(job) ==
    IF job.kind = "video"
    THEN {ReversedVideoPath(job.timestamp), ConcatListPath(job.timestamp)}
    ELSE {}

NoJob == [pc |-> "idle", kind |-> "audio", outputName |-> "null", timestamp |-> 0]

PathInit ==
    /\ pNow = 1
    /\ pJobs = [j \in Slots |-> NoJob]
    /\ pFiles = {}

\* A millisecond passes.
Tick ==
    /\ pNow < MaxClock
    /\ pNow' = pNow + 1
    /\ UNCHANGED <<pJobs, pFiles>>
    /\ UNCHANGED <<jobVars, audioVars, videoVars, curveVars>>

\* An engine call passes its validation and takes its timestamp.
StartJob(j, kind, outputName) ==
    /\ pJobs[j].pc = "idle"
    /\ pJobs' = [pJobs EXCEPT ![j] = [pc |-> "started", kind |-> kind,
                                      outputName |-> outputName,
                                      timestamp |-> pNow]]
    /\ UNCHANGED <<pNow, pFiles>>
    /\ UNCHANGED <<jobVars, audioVars, videoVars, curveVars>>

\* assembleVideo: the reversed clip is saved and the concat list written.
ProduceTemp(j) ==
    /\ pJobs[j].pc = "started"
    /\ pJobs[j].kind = "video"
    /\ pJobs' = [pJobs EXCEPT ![j].pc = "temp"]
    /\ pFiles' = pFiles \cup TempPaths(pJobs[j])
    /\ UNCHANGED pNow
    /\ UNCHANGED <<jobVars, audioVars, videoVars, curveVars>>

\* .save(outputPath): the encoder writes the output, over what is there.
ProduceOutput(j) ==
    /\ pJobs[j].pc = IF pJobs[j].kind = "video" THEN "temp" ELSE "started"
    /\ pJobs' = [pJobs EXCEPT ![j].pc = "encoded"]
    /\ pFiles' = pFiles \cup {OutputPath(pJobs[j].kind, pJobs[j].outputName,
                                          pJobs[j].timestamp)}
    /\ UNCHANGED pNow
    /\ UNCHANGED <<jobVars, audioVars, videoVars, curveVars>>

\* The call returns; assembleVideo's finally block unlinks its temp files.
FinishJob(j) ==
    /\ pJobs[j].pc = "encoded"
    /\ pJobs' = [pJobs EXCEPT ![j].pc = "done"]
    /\ pFiles' = pFiles \ TempPaths(pJobs[j])
    /\ UNCHANGED pNow
    /\ UNCHANGED <<jobVars, audioVars, videoVars, curveVars>>

PathNext ==
    \/ Tick
    \/ \E j \in Slots, kind \in Kinds, outputName \in OutputNames :
          StartJob(j, kind, outputName)
    \/ \E j \in Slots : ProduceTemp(j)
    \/ \E j \in Slots : ProduceOutput(j)
    \/ \E j \in Slots : FinishJob(j)

----------------------------------------------------------------------------
vars == <<jobVars, audioVars, videoVars, curveVars, pathVars>>

Init == JobInit /\ AudioInit /\ VideoInit /\ CurveInit /\ PathInit

Spec == Init /\ [][Next]_vars

SpecWorker == Init /\ [][WorkerNext]_vars

SpecRunner == Init /\ [][RunnerNext]_vars

SpecAudio == Init /\ [][AudioNext]_vars

SpecVideo == Init /\ [][VideoNext]_vars

SpecCurve == Init /\ [][CurveNext]_vars

\* One call of either engine: generateAudio, or assembleVideo.
EnginesNext == AudioNext \/ VideoNext

SpecEngines == Init /\ [][EnginesNext]_vars

SpecPaths == Init /\ [][PathNext]_vars

\* The server has started: initialize() has returned and, the queues being in
\* use, startWorkers() has been called.
Started == svc = "ready" /\ (isRedisAvailable => workers # {})

\* A client submits a job to the started server.
QueuedRequest(q) == Started /\ WorkerRequest(q)

\* The started server with its workers and a client, the broker staying as
\* it was at start.
QueuedNext ==
    \/ Startup
    \/ \E q \in CallerQueueNames : QueuedRequest(q)
    \/ \E i \in DOMAIN jobs : WorkerPick(i)
    \/ \E i \in DOMAIN jobs, p \in Percents : WorkerProgress(i, p)
    \/ \E i \in DOMAIN jobs : WorkerSucceed(i)
    \/ \E i \in DOMAIN jobs, v \in WorkerThrown : WorkerFail(i, v)
    \/ \E i \in DOMAIN jobs : BackoffElapsed(i)
    \/ \E k \in DOMAIN calls : ClientSubscribe(k)
    \/ \E i \in DOMAIN jobs : SubscribeJob(i)

\* A worker that exists takes the waiting job of its queue, a processor
\* invocation ends, a backoff delay passes, and a message of the client is
\* sent and handled.
QueuedFairness ==
    \A i \in 1..MaxJobs :
        /\ WF_vars(i \in DOMAIN jobs /\ WorkerPick(i))
        /\ WF_vars(i \in DOMAIN jobs
                      /\ (WorkerSucceed(i)
                            \/ \E v \in WorkerThrown : WorkerFail(i, v)))
        /\ WF_vars(i \in DOMAIN jobs /\ BackoffElapsed(i))
        /\ WF_vars(i \in DOMAIN calls /\ ClientSubscribe(i))
        /\ WF_vars(SubscribeJob(i))

SpecQueued == Init /\ [][QueuedNext]_vars /\ QueuedFairness

----------------------------------------------------------------------------
(* The job runner's claims.                                                *)

Returned(c) == c.end = "returned"

\* The call ran in INLINE mode: the flag was unset when addJob was called.
InlineMode(c) == ~c.flag

\* The returned object has its error field set.
HasError(c) == c.error # "none"

\* C1: in INLINE mode, addJob called with a processor that throws or rejects
\* returns an object with status 'failed' and an error and never raises to the
\* caller, for every thrown value.
C1_InlineThrowReturnsFailed ==
    \A k \in DOMAIN calls :
        (InlineMode(calls[k]) /\ calls[k].thrown \in Thrown)
            => /\ Returned(calls[k])
               /\ calls[k].status = "failed"
               /\ HasError(calls[k])

\* C2: every addJob call made while the broker is unreachable, whether it was
\* unreachable at initialize or became so afterwards, does not fail the
\* request: it is executed inline and returns status completed or failed.
\* (Stated for the processors that throw no nullish value, which C1 is about.)
C2_UnreachableBrokerFallsBackInline ==
    \A k \in DOMAIN calls :
        (~calls[k].up /\ calls[k].thrown # "Nullish")
            => /\ calls[k].end # "raised"
               /\ Returned(calls[k]) =>
                     calls[k].status \in {"completed", "failed"}

C4_ModeFixedAfterInitialize ==
    /\ [][svc = "ready" => isRedisAvailable' = isRedisAvailable]_vars
    /\ [](\A k \in DOMAIN calls :
             /\ calls[k].flag => calls[k].invoked = 0
             /\ ~calls[k].flag => calls[k].persisted = 0)

Terminal(j) == j.state \in {"completed", "failed"}

\* C5: in QUEUED mode a job is attempted at most 3 times: one whose processor
\* fails on every attempt is failed after exactly 3 attempts, one whose
\* processor succeeds on attempt k <= 3 is completed after exactly k attempts
\* and never attempted again, and a completed or failed job never changes.
C5_AtMostThreeAttempts ==
    /\ [](\A i \in DOMAIN jobs :
             /\ jobs[i].started <= 3
             /\ jobs[i].state = "failed" =>
                   jobs[i].started = 3 /\ jobs[i].attemptsMade = 3
             /\ jobs[i].state = "completed" =>
                   jobs[i].started = jobs[i].attemptsMade + 1)
    /\ [][\A i \in DOMAIN jobs : Terminal(jobs[i]) => jobs'[i] = jobs[i]]_vars

\* A job has failed for good after three failed attempts.
C5_Witness ==
    \E i \in DOMAIN jobs :
        jobs[i].state = "failed" /\ jobs[i].started = 3 /\ jobs[i].attemptsMade = 3

\* C6: in QUEUED mode the sink receives, for every job, retried ones
\* included, exactly one terminal event (job:completed or job:failed, never
\* both), and no job:progress event after it. (Stated with the socket server
\* attached.)
C6_OneTerminalEventPerJob ==
    io => \A i \in DOMAIN jobs :
             /\ Terminals(Sent(sink, i)) <= 1
             /\ ~Sent(sink, i).late
             /\ Terminal(jobs[i]) => Terminals(Sent(sink, i)) = 1

----------------------------------------------------------------------------
(* The audio engine's claims.                                              *)

Percent(events) == [k \in DOMAIN events |-> events[k].percent]

NonDecreasing(ps) == \A k \in DOMAIN ps : k > 1 => ps[k - 1] <= ps[k]

\* C7: the percent values a job passes to updateProgress (the routes hand the
\* engine's progress callback straight to it), and hence its persisted
\* progress, never decrease over the life of the job.
C7_ProgressMonotonic == NonDecreasing(Percent(aEvents))

\* C8: on every successful generateAudio run, whatever percents the encoder
\* reports, the callback receives exactly one event with percent 100, and that
\* event is the last one delivered.
C8_AudioOneFinalHundred ==
    (aPc = "resolved" /\ aReq.cb) =>
        /\ Cardinality({k \in DOMAIN aEvents : aEvents[k].percent = 100}) = 1
        /\ aEvents[Len(aEvents)].percent = 100

OutOfBounds(req) ==
    req.stems = 0 \/ req.stems > 10 \/ req.duration < 60 \/ req.duration > 36000

\* C12: generateAudio called with 0 stems, with more than 10 stems, or with a
\* duration below 60 or above 36000 fails with a validation error before the
\* catalogue is queried or any encoder is invoked: no output file is created
\* and no progress event is emitted.
C12_ValidationFailsFirst ==
    (aPc # "idle" /\ OutOfBounds(aReq)) =>
        /\ aPc = "rejected"
        /\ aError = "validation"
        /\ ~aQueried
        /\ ~aOutput
        /\ aEvents = <<>>

\* A request with 11 stems and a callback was rejected.
C12_Witness == aPc = "rejected" /\ aReq.stems = 11 /\ aReq.cb

----------------------------------------------------------------------------
(* The video engine's claims.                                              *)

\* C9: on every successful assembleVideo run, ping-pong or standard, the
\* callback receives exactly one event with percent 100, and that event is the
\* last one delivered.
C9_VideoOneFinalHundred ==
    (vPc = "resolved" /\ vReq.cb) =>
        /\ Cardinality({k \in DOMAIN vEvents : vEvents[k].percent = 100}) = 1
        /\ vEvents[Len(vEvents)].percent = 100

\* The call has finished after entering its try block.
VideoFinished == vPc \in {"resolved", "rejected"} /\ vError # "validation"

\* C10: whenever assembleVideo finishes, by success or by any failure (a
\* failing delete of one artifact included), neither the reversed clip nor
\* the concat list exists. (Stated for each artifact whose own delete was not
\* rejected.)
C10_IntermediateArtifactsRemoved ==
    VideoFinished =>
        /\ "reversed" \notin vUnlinkFailed => ~vReversed
        /\ "concat" \notin vUnlinkFailed => ~vConcat

\* The request is invalid: a file is missing, audioDuration is below 1, or the
\* loop type is neither 'ping-pong' nor 'standard'.
InvalidAssembly(req) ==
    \/ ~req.videoExists
    \/ ~req.audioExists
    \/ req.audioDuration < 1
    \/ req.loopType \notin {"ping-pong", "standard"}

\* C13: assembleVideo called with an invalid request fails with an error
\* without ever invoking the reversal or merge encoder, and leaves no reversed
\* clip, segment descriptor or output file behind.
C13_InvalidAssemblyRejected ==
    (vPc # "idle" /\ InvalidAssembly(vReq)) =>
        /\ vEncoders = {}
        /\ ~vReversed /\ ~vConcat /\ ~vOutput
        /\ vPc # "resolved"
        /\ vPc = "rejected" => vError # "none"

\* A request with both files, a duration and an unknown loop type was rejected
\* after the probe.
C13_Witness ==
    /\ vPc = "rejected" /\ vError = "looptype" /\ vSource > 0
    /\ vReq.videoExists /\ vReq.audioExists /\ vReq.audioDuration >= 1

\* The plan has been built: the probe returned and the loop type is known.
Planned ==
    /\ vSource > 0 /\ vReq.loopType \in {"ping-pong", "standard"}
    /\ \E k \in DOMAIN vLog : vLog[k] = "plan"

\* ceil(t / unit): the least n with n * unit >= t.
LoopCount(t, unit) == CHOOSE n \in 0..t : n * unit >= t /\ (n - 1) * unit < t

\* C14: for every source duration s > 0 and target duration t >= 1, the
\* segment list equals the reference plan: for ping-pong, ceil(t / (2s))
\* repetitions of the pair [forward, reverse], i.e. 2 * ceil(t / (2s))
\* segments starting with forward and strictly alternating; for standard,
\* ceil(t / s) forward segments.
C14_PlanEqualsReference ==
    Planned =>
        IF vReq.loopType = "ping-pong"
        THEN /\ Len(vPlan) = 2 * LoopCount(vReq.audioDuration, 2 * vSource)
             /\ \A k \in DOMAIN vPlan :
                   vPlan[k] = IF k % 2 = 1 THEN "forward" ELSE "reverse"
        ELSE /\ Len(vPlan) = LoopCount(vReq.audioDuration, vSource)
             /\ \A k \in DOMAIN vPlan : vPlan[k] = "forward"

\* s = 10, t = 95, ping-pong: 10 segments.
C14_Witness ==
    /\ Planned /\ vReq.loopType = "ping-pong"
    /\ vSource = 10 /\ vReq.audioDuration = 95 /\ Len(vPlan) = 10

\* C15: for every loop type, source duration s > 0 and target duration
\* t >= 1, the total planned duration (planned segments times s) is at least
\* t, and the merge is always invoked with a duration cap equal to t.
C15_PlanCoversTarget ==
    /\ Planned => Len(vPlan) * vSource >= vReq.audioDuration
    /\ "merge" \in vEncoders => vCap = vReq.audioDuration

\* s = 10, t = 25, standard: 30 seconds planned, the merge capped at 25.
C15_Witness ==
    /\ "merge" \in vEncoders /\ vReq.loopType = "standard"
    /\ vSource = 10 /\ vCap = 25 /\ Len(vPlan) * vSource = 30

----------------------------------------------------------------------------
(* The job runner's claims on status queries and progress.                 *)

\* The jobs a query that has now ended was answered over.
AnsweredOver == IF query.end = "pending"
                THEN VisibleJobs(query, calls, jobs) ELSE jobs

\* The result r is what the claim says of a query over the jobs js: in
\* QUEUED mode 'not_found' when no job of that queue has that id, otherwise
\* the job's state and progress; in INLINE mode 'unknown'.
StatusAsClaimed(r, js) ==
    IF r.flag
    THEN IF \A i \in DOMAIN js : ~(js[i].queue = r.queue /\ js[i].id = r.id)
         THEN r.status = "not_found"
         ELSE \A i \in DOMAIN js :
                 (js[i].queue = r.queue /\ js[i].id = r.id)
                     => r.status = js[i].state /\ r.progress = js[i].progress
    ELSE r.status = "unknown"

\* C16: in QUEUED mode getJobStatus(kind, id) returns, as a value and without
\* raising, a JobNotFound result when no job with that id exists in that
\* kind's queue and otherwise a snapshot whose status and progress are the
\* job's current state and last recorded progress; in INLINE mode it returns
\* an 'unknown / queue not available' result for every id.
C16_StatusReturnedAsValue ==
    [][query' # query =>
          /\ query'.end # "raised"
          /\ query'.end = "returned" => StatusAsClaimed(query', AnsweredOver)]_vars

\* C19: every updateProgress call made by a processor, in QUEUED mode and in
\* INLINE mode alike, produces one progress event on the sink; in QUEUED mode
\* it additionally updates the persisted job progress, in INLINE mode it does
\* nothing else. (Stated with the socket server attached.)
C19_EveryUpdateReachesSink ==
    io => /\ \A k \in DOMAIN calls :
                calls[k].invoked > 0 =>
                    /\ calls[k].events = calls[k].updates
                    /\ calls[k].persisted = 0
          /\ \A i \in DOMAIN jobs :
                jobs[i].updates > 0 =>
                    Sent(sink, i).early \/ Sent(sink, i).late

----------------------------------------------------------------------------
(* The curves' claims.                                                     *)

\* C17: for every duration D in [60, 36000], base volume b and volatility v
\* in [0, 1], and every sequence of values drawn from the random source,
\* volumeCurve(D, b, v) has strictly increasing sample times whose first is 0
\* and whose last is D, and every sample volume lies in [0.1, 1.0].
C17_VolumeCurveBounds ==
    cReq.kind = "volume" =>
        /\ \A k \in DOMAIN cCurve :
              /\ k > 1 => cCurve[k - 1].time < cCurve[k].time
              /\ cCurve[k].value >= 100000 /\ cCurve[k].value <= 1000000
        /\ cCurve # <<>> => cCurve[1].time = 0
        /\ cPc = "done" =>
              /\ Len(cCurve) = Points(cReq.duration) + 1
              /\ cCurve[Len(cCurve)].time = cReq.duration

\* An 11 minute curve of 12 samples was returned for base volume 0.5 and
\* volatility 1, one sample held at the floor 0.1 and one just below 1.0.
C17_Witness ==
    /\ cReq.kind = "volume" /\ cPc = "done" /\ cReq.duration = 660
    /\ cReq.base = 500 /\ cReq.spread = 1000
    /\ Len(cCurve) = 12
    /\ \E k \in DOMAIN cCurve : cCurve[k].value = 100000
    /\ \E k \in DOMAIN cCurve : cCurve[k].value = 999000

\* C18: for every pan curve that generateAudio can produce from an accepted
\* request, every pan sample and the mean pan handed to panFilter lie in
\* [-1, 1], and the left and right gains derived by panFilter are both >= 0
\* and <= 2.
C18_PanWithinBounds ==
    cReq.kind = "pan" =>
        /\ \A k \in DOMAIN cCurve :
              cCurve[k].value >= -1000000 /\ cCurve[k].value <= 1000000
        /\ cPc = "filtered" =>
              /\ cFilter.pan >= -1000000 * cFilter.n
              /\ cFilter.pan <= 1000000 * cFilter.n
              /\ cFilter.leftGain >= 0 /\ cFilter.leftGain <= 2000000 * cFilter.n
              /\ cFilter.rightGain >= 0 /\ cFilter.rightGain <= 2000000 * cFilter.n

----------------------------------------------------------------------------
(* The engines' claim on throttling.                                       *)

\* What generateAudio's progress handler passed to the callback.
AudioDriven == Percent(SelectSeq(aEvents, LAMBDA e : e.message = "processing"))

FiveApart(ps) == \A k \in DOMAIN ps : k > 1 => ps[k] >= ps[k - 1] + 5

\* C20, as stated: for any sequence of percent reports from the encoder, the
\* encoder-driven progress events emitted by generateAudio, by the reversal
\* step and by the merge step are throttled: within one encoder run each
\* emitted percent exceeds the previously emitted one by at least 5.
C20_EmittedFiveApart == FiveApart(AudioDriven) /\ FiveApart(vStep)

\* C20, amended: within one encoder run, a report is passed on only when it
\* raises lastProgress, the floored percent of the last report passed on, by at
\* least 5 percentage points; generateAudio and the merge step emit that
\* percent, the reversal step emits a quarter of it.
C20_PassedReportsFiveApart ==
    [][/\ (aPc' = aPc /\ (aLast' # aLast \/ aEvents' # aEvents))
              => /\ aLast' >= aLast + 5
                 /\ aReq.cb => aEvents' = Append(aEvents, Event(aLast', "processing"))
       /\ (vPc' = vPc /\ (vLast' # vLast \/ vStep' # vStep))
              => /\ vLast' >= vLast + 5
                 /\ vStep' = Append(vStep, IF vPc = "reversing"
                                           THEN vLast' \div 4 ELSE vLast')]_vars

\* The reversal step passed on two reports, 90 % and 100 %, and emitted 22 and
\* 25.
C20_Witness ==
    vPc = "reversing" /\ Len(vStep) = 2 /\ vStep[2] < vStep[1] + 5


\* C21: when the reversal or the merge encoder fails during assembleVideo,
\* then once the call has failed no file exists at its output path: a
\* partial output is not left behind.
C21_NoPartialOutputAfterEncoderFailure ==
    (vPc = "rejected" /\ vError \in {"reverse", "merge"}) => ~vOutput

\* How many times step x occurs in the log.
Count(log, x) == Cardinality({k \in DOMAIN log : log[k] = x})

\* The probe of the call has resolved.
Probed == vPc \notin {"idle", "probe"} /\ vError \notin {"validation", "probe"}

\* C22: in a ping-pong call the reversal encoder is invoked exactly once,
\* whatever the number of repetitions planned, and it has completed before
\* the segment descriptor is written and before the merge starts; in a
\* standard call it is never invoked.
C22_ReversalOnceAndFirst ==
    /\ (Probed /\ vReq.loopType = "ping-pong") => Count(vLog, "reverse") = 1
    /\ vReq.loopType = "ping-pong" =>
          \A k \in DOMAIN vLog :
              vLog[k] \in {"write", "merge"} =>
                  \E j \in 1..(k - 1) : vLog[j] = "reversed"
    /\ vReq.loopType = "standard" =>
          /\ Count(vLog, "reverse") = 0
          /\ "reverse" \notin vEncoders

\* A ping-pong call of five repetitions whose merge has been launched, and
\* the reversal ran once.
C22_Witness ==
    /\ vReq.loopType = "ping-pong" /\ Len(vPlan) = 10
    /\ Count(vLog, "reverse") = 1
    /\ \E k \in DOMAIN vLog : vLog[k] = "merge"

\* C28: for every value the duration probe can return, 0 included, the
\* construction of the plan ends with a finite list or fails with an
\* error: its loop never runs without a finite bound.
C28_PlanLoopBounded ==
    vPc = "pushing" =>
        LoopsNeeded(vReq.audioDuration,
                    UnitDuration(vReq.loopType, vSource)) # Infinity

\* C29: every percent delivered to a progress callback by generateAudio or
\* by assembleVideo lies in 0..100, whatever the encoder reports.
C29_PercentWithinRange ==
    /\ \A k \in DOMAIN aEvents : aEvents[k].percent \in 0..100
    /\ \A k \in DOMAIN vEvents : vEvents[k].percent \in 0..100

\* C30: a generateAudio request that passes validation fails at stem
\* resolution if and only if a stem id it references is absent from the
\* catalogue or the file of a referenced stem is missing; a request that
\* references the same stem more than once is never rejected as not found.
C30_StemResolutionFailsIffMissing ==
    aQueried =>
        (aError \in {"notfound", "nofile"}
            <=> \E k \in DOMAIN aReq.ids :
                   aReq.ids[k] \notin Catalogue \/ aReq.ids[k] \in FileMissing)

\* The windows of the filter that are active at instant t.
ActiveAt(t) ==
    {k \in DOMAIN cWindows : Between(t, cWindows[k].from, cWindows[k].to)}

\* C24: the volume filter built from a curve holds exactly one window per
\* pair of consecutive points, window i reaching from point i to point i + 1
\* with the volume of point i, so that at every instant t of [0, duration)
\* exactly one window is active.
C24_OneWindowPerPair ==
    (cPc = "filtered" /\ cReq.kind = "volume") =>
        /\ Len(cWindows) = Len(cCurve) - 1
        /\ \A k \in DOMAIN cWindows :
              /\ k < Len(cCurve)
              /\ cWindows[k].from = cCurve[k].time
              /\ cWindows[k].to = cCurve[k + 1].time
              /\ cWindows[k].volume = cCurve[k].value
        /\ \A t \in 0..(cReq.duration - 1) : Cardinality(ActiveAt(t)) = 1

\* C25: for every duration D of 60..36000 the volume curve and the pan
\* curve each hold exactly max(10, D / 60) sample points, evenly spaced over
\* [0, D], both ends included.
C25_SampleCount ==
    cPc \in {"done", "filtered"} =>
        /\ Len(cCurve) = Max(10, cReq.duration \div 60)
        /\ cCurve[1].time = 0
        /\ cCurve[Len(cCurve)].time = cReq.duration
        /\ \A k \in 2..(Len(cCurve) - 1) :
              cCurve[k + 1].time - cCurve[k].time
                  = cCurve[k].time - cCurve[k - 1].time

\* C26: in QUEUED mode a client that submits a job and sends subscribe:job
\* as soon as it holds the returned jobId eventually receives the job's
\* terminal event (job:completed or job:failed), however the worker's
\* processing interleaves with the subscription. (Stated for the jobs of a
\* queue that has a worker.)
C26_SubscriberReceivesTerminalEvent ==
    \A i \in 1..MaxJobs :
        (i \in client.sent /\ jobs[i].queue \in workers) ~> (i \in client.got)

\* C27: in QUEUED mode every job accepted by addJob (status 'queued')
\* eventually reaches completed or failed, the broker staying reachable, the
\* workers being scheduled fairly and every processor invocation ending: no
\* accepted job stays queued forever.
C27_AcceptedJobEnds ==
    \A i \in 1..MaxJobs :
        (i \in DOMAIN jobs) ~> (i \in DOMAIN jobs /\ Terminal(jobs[i]))

\* The engine call of slot j is under way.
Running(j) == pJobs[j].pc \in {"started", "temp", "encoded"}

\* C23: any two engine calls that run at the same time, with or without a
\* caller-supplied output name, have different output paths and different
\* intermediate artifact paths (reversed clip, concat list), so that none
\* overwrites or deletes a file of the other.
C23_ConcurrentPathsDiffer ==
    \A a \in Slots, b \in Slots :
        (a # b /\ Running(a) /\ Running(b)) =>
            /\ OutputPath(pJobs[a].kind, pJobs[a].outputName, pJobs[a].timestamp)
                 # OutputPath(pJobs[b].kind, pJobs[b].outputName,
                              pJobs[b].timestamp)
            /\ TempPaths(pJobs[a]) \cap TempPaths(pJobs[b]) = {}

====
